---- MODULE Spec2Model ----
(***************************************************************************)
(* Model of the pause protocol of a bot (src/bots/Virtual/commands/        *)
(* pause.js), the job life cycle it drives (src/server/middleware/jobs/    *)
(* job.js) and the command queue and bot state machine it runs on.         *)
(*                                                                         *)
(* The command queue, the bot state machine and the two fsm definition     *)
(* files are not part of the sources at hand; they are modelled from the   *)
(* written specification (sections 4.1, 4.2 and 4.4) and are marked so.    *)
(*                                                                         *)
(* Decimal numbers are held in hundredths: 10.5 is 1050.                   *)
(*                                                                         *)
(* Four specifications: Spec, the pause protocol with the transient        *)
(* operations of the bot; QueueSpec, the pause protocol with another       *)
(* caller queueing instructions; LiveSpec, Spec with a device that always  *)
(* answers and a queue that keeps draining; JobSpec, the job on its own    *)
(* with the persistence and broadcast of onenterstate.                     *)
(***************************************************************************)
EXTENDS Integers, Sequences, FiniteSets, TLC

\* ------------------------------------------------------------------------
\* Bounds of the model
\* ------------------------------------------------------------------------
\* number of pause requests that pass the three preconditions
MaxPauses == 2
\* number of transient (blocking / unblocking) operations the bot starts
MaxTransients == 1

\* instructions queued by callers other than pause
MaxCommands == 1
\* runs of onenterstate of the job that have not ended
MaxPending == 2

\* ------------------------------------------------------------------------
\* JavaScript values: a number, NaN or undefined
\* ------------------------------------------------------------------------
Num(n) == [t |-> "num", v |-> n]
NaN == [t |-> "nan", v |-> 0]
Undef == [t |-> "undef", v |-> 0]

\* a + b and a - b of JavaScript: anything that is not a number gives NaN
JSAdd(a, b) == IF a.t = "num" /\ b.t = "num" THEN Num(a.v + b.v) ELSE NaN
JSSub(a, b) == IF a.t = "num" /\ b.t = "num" THEN Num(a.v - b.v) ELSE NaN

\* the clearance added to z by the lift instruction (in whole units)
Clearance == 10

\* ------------------------------------------------------------------------
\* Telemetry lines, as sequences of characters
\* ------------------------------------------------------------------------
\* "X:10.5 Y:-2.0 Z:5.0 E:100.25"
LineSpec ==
    <<"X", ":", "1", "0", ".", "5", " ", "Y", ":", "-", "2", ".", "0", " ",
      "Z", ":", "5", ".", "0", " ", "E", ":", "1", "0", "0", ".", "2", "5">>
\* "ok X:1Y:+2 Z:3.25 E:-4 Count X: 0"
LineOkCount ==
    <<"o", "k", " ", "X", ":", "1", "Y", ":", "+", "2", " ", "Z", ":", "3",
      ".", "2", "5", " ", "E", ":", "-", "4", " ", "C", "o", "u", "n", "t",
      " ", "X", ":", " ", "0">>
\* "X:1 Y:2 Z:3"
LineNoE ==
    <<"X", ":", "1", " ", "Y", ":", "2", " ", "Z", ":", "3">>
\* "ok"
LineOk ==
    <<"o", "k">>

\* the lines a device answers with, each with the values it reports
\* (in hundredths); wf tells whether the line has the four-field shape
Lines ==
    { [text |-> LineSpec, wf |-> TRUE,
       X |-> 1050, Y |-> -200, Z |-> 500, E |-> 10025],
      [text |-> LineOkCount, wf |-> TRUE,
       X |-> 100, Y |-> 200, Z |-> 325, E |-> -400],
      [text |-> LineNoE, wf |-> FALSE, X |-> 0, Y |-> 0, Z |-> 0, E |-> 0],
      [text |-> LineOk, wf |-> FALSE, X |-> 0, Y |-> 0, Z |-> 0, E |-> 0] }

\* the configured offsets (settings.offsetX, offsetY, offsetZ), in hundredths
OffsetTriples ==
    { [x |-> 0, y |-> 0, z |-> 0],
      [x |-> 150, y |-> -25, z |-> 100] }

\* ------------------------------------------------------------------------
\* m114Regex and Number()
\* ------------------------------------------------------------------------
DigitVal ==
    ("0" :> 0) @@ ("1" :> 1) @@ ("2" :> 2) @@ ("3" :> 3) @@ ("4" :> 4) @@
    ("5" :> 5) @@ ("6" :> 6) @@ ("7" :> 7) @@ ("8" :> 8) @@ ("9" :> 9)

At(s, i) == IF i >= 1 /\ i <= Len(s) THEN s[i] ELSE ""

IsDigit(c) == c \in DOMAIN DigitVal

\* \d* from position i: the position after the last digit
RECURSIVE DigitsEnd(_, _)
DigitsEnd(s, i) == IF IsDigit(At(s, i)) THEN DigitsEnd(s, i + 1) ELSE i

\* \s* from position i
RECURSIVE SkipWs(_, _)
SkipWs(s, i) == IF At(s, i) = " " THEN SkipWs(s, i + 1) ELSE i

\* [+-]? at position i: the position after it
SignEnd(s, i) == IF At(s, i) \in {"+", "-"} THEN i + 1 ELSE i

\* \d+(\.\d+)? with the digits s[j..k-1] already taken: the position after
\* the match, 0 when there is no digit
FractionEnd(s, j, k) ==
    IF k = j THEN 0
    ELSE IF At(s, k) = "." /\ DigitsEnd(s, k + 1) > k + 1
         THEN DigitsEnd(s, k + 1)
         ELSE k

\* [+-]?\d+(\.\d+)? from position i: the position after the match, 0 when
\* there is none
MatchNum(s, i) == FractionEnd(s, SignEnd(s, i), DigitsEnd(s, SignEnd(s, i)))

\* a marker ("X:") at position i followed by a number: the span of the
\* number, <<0, 0>> when there is none
Field(s, i, marker) ==
    IF At(s, i) = marker /\ At(s, i + 1) = ":" /\ MatchNum(s, i + 2) # 0
    THEN <<i + 2, MatchNum(s, i + 2)>>
    ELSE <<0, 0>>

\* \s* and the next field after the group g, <<0, 0>> when g is no match
NextField(s, g, marker) ==
    IF g[1] = 0 THEN <<0, 0>> ELSE Field(s, SkipWs(s, g[2]), marker)

\* the groups 1, 3, 5 and 7, <<>> when the last of them did not match
Groups(g1, g3, g5, g7) == IF g7[1] = 0 THEN <<>> ELSE <<g1, g3, g5, g7>>

MatchFromZ(s, g1, g3, g5) == Groups(g1, g3, g5, NextField(s, g5, "E"))

MatchFromY(s, g1, g3) == MatchFromZ(s, g1, g3, NextField(s, g3, "Z"))

MatchFromX(s, g1) == MatchFromY(s, g1, NextField(s, g1, "Y"))

\* X:(..)\s*Y:(..)\s*Z:(..)\s*E:(..) with X: at position p: the spans of
\* the groups 1, 3, 5 and 7, <<>> when the line does not match there
MatchAt(s, p) == MatchFromX(s, Field(s, p, "X"))

\* the match that starts at the last of the positions starts
LastMatch(s, starts) ==
    IF starts = {} THEN <<>>
    ELSE MatchAt(s, CHOOSE p \in starts : \A q \in starts : q <= p)

\* data.match(m114Regex): the leading .* is greedy, so the match starts at
\* the last position where the rest of the expression matches; <<>> is null
m114Regex(s) == LastMatch(s, {p \in 1..Len(s) : MatchAt(s, p) # <<>>})

\* the digits s[from..to-1] as a natural number
RECURSIVE IntOf(_, _, _)
IntOf(s, from, to) ==
    IF to <= from THEN 0
    ELSE 10 * IntOf(s, from, to - 1) + DigitVal[s[to - 1]]

\* the digits s[j..k-1], the point s[k] and up to two digits after it, of
\* a text that ends before position to, in hundredths
Hundredths(s, j, k, to) ==
    100 * IntOf(s, j, k)
        + 10 * (IF k + 1 < to THEN DigitVal[s[k + 1]] ELSE 0)
        + (IF k + 2 < to THEN DigitVal[s[k + 2]] ELSE 0)

Magnitude(s, j, to) == Hundredths(s, j, DigitsEnd(s, j), to)

\* Number(text) of a matched group s[span[1]..span[2]-1], in hundredths
Number(s, span) ==
    IF At(s, span[1]) = "-"
    THEN Num(0 - Magnitude(s, SignEnd(s, span[1]), span[2]))
    ELSE Num(Magnitude(s, SignEnd(s, span[1]), span[2]))

\* lines 56 to 62 with the z offset also taken off e
storePosition_offsetOnE(data, parsedPosition, offsets) ==
    IF parsedPosition = <<>>
    THEN [threw |-> TRUE, ret |-> FALSE,
          pos |-> [x |-> Undef, y |-> Undef, z |-> Undef, e |-> Undef]]
    ELSE [threw |-> FALSE, ret |-> TRUE,
          pos |-> [x |-> JSSub(Number(data, parsedPosition[1]),
                               Num(offsets.x)),
                   y |-> JSSub(Number(data, parsedPosition[2]),
                               Num(offsets.y)),
                   z |-> JSSub(Number(data, parsedPosition[3]),
                               Num(offsets.z)),
                   e |-> JSSub(Number(data, parsedPosition[4]),
                               Num(offsets.z))]]

\* a line that does not match stored as a position of undefined fields
storePosition_storesUndefined(data, parsedPosition, offsets) ==
    IF parsedPosition = <<>>
    THEN [threw |-> FALSE, ret |-> TRUE,
          pos |-> [x |-> Undef, y |-> Undef, z |-> Undef, e |-> Undef]]
    ELSE [threw |-> FALSE, ret |-> TRUE,
          pos |-> [x |-> JSSub(Number(data, parsedPosition[1]),
                               Num(offsets.x)),
                   y |-> JSSub(Number(data, parsedPosition[2]),
                               Num(offsets.y)),
                   z |-> JSSub(Number(data, parsedPosition[3]),
                               Num(offsets.z)),
                   e |-> Number(data, parsedPosition[4])]]

\* lines 56 to 62: the position stored from the match and what is returned;
\* threw is the TypeError of reading a field of null
storePosition(data, parsedPosition, offsets) ==
    IF parsedPosition = <<>>
    THEN [threw |-> TRUE, ret |-> FALSE,
          pos |-> [x |-> Undef, y |-> Undef, z |-> Undef, e |-> Undef]]
    ELSE [threw |-> FALSE, ret |-> TRUE,
          pos |-> [x |-> JSSub(Number(data, parsedPosition[1]),
                               Num(offsets.x)),
                   y |-> JSSub(Number(data, parsedPosition[2]),
                               Num(offsets.y)),
                   z |-> JSSub(Number(data, parsedPosition[3]),
                               Num(offsets.z)),
                   e |-> Number(data, parsedPosition[4])]]

\* processData of the M114 entry
processData(data, offsets) ==
    storePosition(data, m114Regex(data), offsets)

\* ------------------------------------------------------------------------
\* State
\* ------------------------------------------------------------------------
VARIABLES
    botState,        \* self.fsm.current of the bot
    hasJob,          \* self.currentJob !== undefined
    job,             \* the job: its fsm state and whether its stopwatch runs
    queue,           \* self.queue: the entries waiting to be drained
    inflight,        \* the entry being drained (NoEntry when there is none)
    phase,           \* "idle", "sent" (awaiting a response) or "satisfied"
    pausedPosition,  \* self.pausedPosition
    pauseableState,  \* self.pauseableState
    settings,        \* self.settings.offsetX, offsetY, offsetZ
    closures,        \* per pause call: its local pausedPosition and the
                     \* pauseMovementCommand array it built
    nPauses,         \* pause calls that passed the preconditions
    nTransients,     \* transient operations started
    log,             \* history: the pause-related events, in order
    lastData,        \* history: the last line processData was called with
                     \* for the entry last in flight
    ret,             \* history: how the last pause call ended
    nCommands,       \* instructions queued by callers other than pause
    nInFlight,       \* history: entries transmitted and not yet finished
    initialState,    \* this.initialState of the job ("undefined" if none)
    pending,         \* the runs of onenterstate that have not ended
    db,              \* the state in the record of the job
    bcast,           \* history: the last jobEvent broadcast
    failureLogged,   \* history: a run of onenterstate failed and logged it
    jobRet           \* history: how the last call of a job operation ended

\* the variables of the side channel of the job and of its callers
jobSide == <<initialState, pending, db, bcast, failureLogged, jobRet>>

vars == <<botState, hasJob, job, queue, inflight, phase, pausedPosition,
          pauseableState, settings, closures, nPauses, nTransients, log,
          lastData, ret, nCommands, nInFlight, jobSide>>

Pids == 1..MaxPauses

NoEntry == [kind |-> "none", pid |-> 0, code |-> "", arg |-> Undef]

UndefPosition == [x |-> Undef, y |-> Undef, z |-> Undef, e |-> Undef]

NoLine == [text |-> <<>>, wf |-> FALSE, X |-> 0, Y |-> 0, Z |-> 0, E |-> 0]

\* no record of the job has been written, nothing has been broadcast, no
\* job operation has been called
NoRecord == "none"

NoBroadcast == [kind |-> "none", state |-> "none", to |-> "none"]

NoJobRet ==
    [op |-> "none", prev |-> "none", threw |-> FALSE, fired |-> FALSE]

\* ------------------------------------------------------------------------
\* The fsm definitions (react/modules/Bots/botFsmDefinitions and
\* react/modules/Jobs/jobFsmDefinitions)
\* ------------------------------------------------------------------------
\* botFsmDefinitions.metaStates.pauseable
pauseable == {"idle"}

\* the transient states of the bot
TransientStates == {"blocking", "unblocking"}

\* botFsmDefinitions.fsmEvents: the target of an event, "" when the event
\* is not permitted from the state
BotFsmTarget(event, from) ==
    CASE event = "connect" /\ from = "disconnected" -> "connecting"
      [] event = "connectDone" /\ from = "connecting" -> "idle"
      [] event = "pause" /\ from = "idle" -> "pausing"
      [] event = "pauseDone" /\ from = "pausing" -> "paused"
      [] event = "resume" /\ from = "paused" -> "idle"
      [] event = "block" /\ from = "idle" -> "blocking"
      [] event = "unblock" /\ from = "idle" -> "unblocking"
      [] event = "transientDone" /\ from \in TransientStates -> "idle"
      [] OTHER -> ""

\* self.fsm.<event>(): the state afterwards and whether the state machine
\* raised a state-transition error
BotFire(event, from) ==
    LET to == BotFsmTarget(event, from)
    IN  IF to = "" THEN [state |-> from, err |-> TRUE]
        ELSE [state |-> to, err |-> FALSE]

\* jobFsmDefinitions.metaStates.processingJob
processingJob == {"running", "paused"}

\* jobFsmDefinitions.fsmEvents
JobFsmTarget(event, from) ==
    CASE event = "initializationDone" /\ from = "initializing" -> "ready"
      [] event = "start" /\ from = "ready" -> "running"
      [] event = "pause" /\ from = "running" -> "paused"
      [] event = "resume" /\ from = "paused" -> "running"
      [] event = "cancel" /\ from \in processingJob -> "canceled"
      [] event = "completeJob" /\ from = "running" -> "complete"
      [] OTHER -> ""

\* this.fsm.<event>() of the job: the error handler of the fsm throws
JobFire(event, from) ==
    LET to == JobFsmTarget(event, from)
    IN  IF to = "" THEN [state |-> from, err |-> TRUE]
        ELSE [state |-> to, err |-> FALSE]

\* ------------------------------------------------------------------------
\* The job operations
\* ------------------------------------------------------------------------
\* start without its precondition: the stopwatch is started, the error of
\* the fsm is caught and logged
JobStart_noPrecondition(j) ==
    [job |-> [state |-> JobFire("start", j.state).state,
              stopwatch |-> TRUE],
     threw |-> FALSE]

\* each gives the job afterwards and whether the call threw
JobStart(j) ==
    IF j.state # "ready" THEN [job |-> j, threw |-> TRUE]
    ELSE [job |-> [state |-> JobFire("start", j.state).state,
                   stopwatch |-> TRUE],
          threw |-> FALSE]

JobPause(j) ==
    IF j.state = "paused" THEN [job |-> j, threw |-> FALSE]
    ELSE IF j.state # "running" THEN [job |-> j, threw |-> TRUE]
    ELSE [job |-> [state |-> JobFire("pause", j.state).state,
                   stopwatch |-> FALSE],
          threw |-> FALSE]

\* resume without the return for a job that is running
JobResume_noShortcut(j) ==
    IF j.state # "paused" THEN [job |-> j, threw |-> TRUE]
    ELSE [job |-> [state |-> JobFire("resume", j.state).state,
                   stopwatch |-> TRUE],
          threw |-> FALSE]

JobResume(j) ==
    IF j.state = "running" THEN [job |-> j, threw |-> FALSE]
    ELSE IF j.state # "paused" THEN [job |-> j, threw |-> TRUE]
    ELSE [job |-> [state |-> JobFire("resume", j.state).state,
                   stopwatch |-> TRUE],
          threw |-> FALSE]

\* cancel without its precondition: the stopwatch is stopped, the error of
\* the fsm is caught and logged
JobCancel_noPrecondition(j) ==
    [job |-> [state |-> JobFire("cancel", j.state).state,
              stopwatch |-> FALSE],
     threw |-> FALSE]

JobCancel(j) ==
    IF j.state \notin processingJob THEN [job |-> j, threw |-> TRUE]
    ELSE [job |-> [state |-> JobFire("cancel", j.state).state,
                   stopwatch |-> FALSE],
          threw |-> FALSE]

\* complete without the stop of the stopwatch
JobComplete_timerLeftRunning(j) ==
    IF j.state # "running" THEN [job |-> j, threw |-> TRUE]
    ELSE [job |-> [state |-> JobFire("completeJob", j.state).state,
                   stopwatch |-> j.stopwatch],
          threw |-> FALSE]

JobComplete(j) ==
    IF j.state # "running" THEN [job |-> j, threw |-> TRUE]
    ELSE [job |-> [state |-> JobFire("completeJob", j.state).state,
                   stopwatch |-> FALSE],
          threw |-> FALSE]

\* ------------------------------------------------------------------------
\* The command queue
\* ------------------------------------------------------------------------
prependCommands(q, commands) == commands \o q

queueCommands(q, commands) == q \o commands

\* whether an entry has a response-processing function
HasProcessData(e) == e.kind = "M114"

\* ------------------------------------------------------------------------
\* pause.js: the entries a pause call builds
\* ------------------------------------------------------------------------
\* the entry prepended at line 80
stageACommand(pid) ==
    [kind |-> "stageA", pid |-> pid, code |-> "", arg |-> Undef]

pauseEndCommand(pid) ==
    [kind |-> "pauseEnd", pid |-> pid, code |-> "", arg |-> Undef]

\* the entry built at line 91
markerCommand(pid) ==
    [kind |-> "marker", pid |-> pid, code |-> "", arg |-> Undef]

\* the array with the closing entry ahead of the lift instruction
pauseMovementCommand_closingBeforeLift(pid, local) ==
    << [kind |-> "M400", pid |-> pid, code |-> "M400", arg |-> Undef],
       [kind |-> "M114", pid |-> pid, code |-> "M114", arg |-> Undef],
       [kind |-> "closing", pid |-> pid, code |-> "", arg |-> Undef],
       [kind |-> "lift", pid |-> pid, code |-> "G1 Z",
        arg |-> JSAdd(local.z, Num(100 * Clearance))] >>

\* the array literal of lines 46 to 77; local is the value of the local
\* variable pausedPosition when the literal is evaluated, and the template
\* string of the lift instruction is evaluated with it
pauseMovementCommand(pid, local) ==
    << [kind |-> "M400", pid |-> pid, code |-> "M400", arg |-> Undef],
       [kind |-> "M114", pid |-> pid, code |-> "M114", arg |-> Undef],
       [kind |-> "lift", pid |-> pid, code |-> "G1 Z",
        arg |-> JSAdd(local.z, Num(100 * Clearance))],
       [kind |-> "closing", pid |-> pid, code |-> "", arg |-> Undef] >>

\* the checks without the one for a current job
PreconditionError_noJobCheck(currentJobDefined, botCurrent, jobCurrent) ==
    IF botCurrent \notin pauseable THEN "botState"
    ELSE IF jobCurrent # "running" THEN "jobState"
    ELSE "none"

\* the checks without the one for the state of the job
PreconditionError_noJobState(currentJobDefined, botCurrent, jobCurrent) ==
    IF ~currentJobDefined THEN "noJob"
    ELSE IF botCurrent \notin pauseable THEN "botState"
    ELSE "none"

\* the checks without the one for the state of the bot
PreconditionError_noBotState(currentJobDefined, botCurrent, jobCurrent) ==
    IF ~currentJobDefined THEN "noJob"
    ELSE IF jobCurrent # "running" THEN "jobState"
    ELSE "none"

\* the three checks of lines 7 to 15: the error that is thrown
PreconditionError(currentJobDefined, botCurrent, jobCurrent) ==
    IF ~currentJobDefined THEN "noJob"
    ELSE IF botCurrent \notin pauseable THEN "botState"
    ELSE IF jobCurrent # "running" THEN "jobState"
    ELSE "none"

\* the check of the job state made ahead of the try
pauseThrows_jobStateEscapes(exc) == exc = "jobState"

\* the try / catch of lines 6 and 105: whether an error raised inside
\* leaves the call
pauseThrows(exc) == FALSE

\* the record of a pause call that ended: the error raised inside it, whether
\* it left the call, the state at the call and the snapshot returned
Returned(r, exc, pid, at, hadJob, jobAt, snapshot) ==
    [tick |-> 1 - r.tick, exc |-> exc,
     thrown |-> IF exc = "none" THEN FALSE ELSE pauseThrows(exc),
     pid |-> pid, at |-> at, hadJob |-> hadJob, jobAt |-> jobAt,
     snapshot |-> snapshot]

\* the event recorded once per pause, except "pos", which is recorded
\* once per run of responses
Logged(l, pid, ev) ==
    IF l # <<>> /\ l[Len(l)] = [pid |-> pid, ev |-> ev] /\ ev = "pos"
    THEN l
    ELSE Append(l, [pid |-> pid, ev |-> ev])

\* the bot, its queue and the histories kept of them
InitBot ==
    /\ botState = "disconnected"
    /\ hasJob = FALSE
    /\ queue = <<>>
    /\ inflight = NoEntry
    /\ phase = "idle"
    /\ pausedPosition = UndefPosition
    /\ pauseableState = "undefined"
    /\ closures = [p \in Pids |->
                     [pausedPosition |-> UndefPosition, movement |-> <<>>]]
    /\ nPauses = 0
    /\ nTransients = 0
    /\ log = <<>>
    /\ lastData = NoLine
    /\ ret = [tick |-> 0, exc |-> "none", thrown |-> FALSE, pid |-> 0,
              at |-> "none", hadJob |-> FALSE, jobAt |-> "none",
              snapshot |-> "disconnected"]
    /\ nCommands = 0
    /\ nInFlight = 0

\* nothing has run of the side channel of the job, no job operation has
\* been called
InitSide ==
    /\ pending = <<>>
    /\ db = NoRecord
    /\ bcast = NoBroadcast
    /\ failureLogged = FALSE
    /\ jobRet = NoJobRet

\* a bot and a job that was created with no restored state and initialized
Init ==
    /\ InitBot
    /\ InitSide
    /\ settings \in OffsetTriples
    /\ initialState = "undefined"
    /\ job = [state |-> "ready", stopwatch |-> FALSE]

\* ------------------------------------------------------------------------
\* pause(self, params)
\* ------------------------------------------------------------------------
Pause ==
    LET exc == PreconditionError(hasJob, botState, job.state)
        pid == nPauses + 1
        local == UndefPosition
        movement == pauseMovementCommand(pid, local)
        q1 == prependCommands(queue, <<stageACommand(pid)>>)
        fired == BotFire("pause", botState)
    IN  IF exc # "none"
        THEN /\ ret' = Returned(ret, exc, 0, botState, hasJob, job.state,
                             botState)
             /\ UNCHANGED <<botState, hasJob, job, queue, inflight, phase,
                            pausedPosition, pauseableState, settings,
                            closures, nPauses, nTransients, log,
                            lastData, nCommands, nInFlight, jobSide>>
        ELSE /\ nPauses < MaxPauses
             /\ nPauses' = pid
             /\ closures' = [closures EXCEPT ![pid] =
                    [pausedPosition |-> local, movement |-> movement]]
             /\ log' = Logged(log, pid, "accepted")
             /\ IF botState \in TransientStates
                THEN /\ queue' = queueCommands(q1, <<markerCommand(pid)>>)
                     /\ ret' = Returned(ret, "none", pid, botState, hasJob,
                                      job.state, botState)
                     /\ UNCHANGED <<botState, pauseableState>>
                ELSE /\ queue' = prependCommands(q1, <<>>)
                     /\ pauseableState' = botState
                     /\ botState' = fired.state
                     /\ ret' = Returned(ret,
                                      IF fired.err THEN "fsm" ELSE "none",
                                      pid, botState, hasJob, job.state,
                                      fired.state)
             /\ UNCHANGED <<hasJob, job, inflight, phase, pausedPosition,
                            settings, nTransients, lastData, nCommands,
                            nInFlight, jobSide>>

\* ------------------------------------------------------------------------
\* The drain loop of the command queue
\* ------------------------------------------------------------------------
\* the entry leaves flight
Finished(e, l) ==
    IF e.kind = "lift" THEN Logged(l, e.pid, "liftDone") ELSE l

\* the head entry popped whether or not an entry is in flight
Dequeue_ignoresInFlight ==
    /\ queue # <<>>
    /\ queue' = Tail(queue)
    /\ inflight' = Head(queue)
    /\ phase' = IF Head(queue).code # "" THEN "sent" ELSE "satisfied"
    /\ nInFlight' = nInFlight + 1
    /\ lastData' = NoLine
    /\ UNCHANGED <<botState, hasJob, job, pausedPosition, pauseableState,
                   settings, closures, nPauses, nTransients, log, ret,
                   nCommands, jobSide>>

\* pop the head entry, run its pre-callback, transmit its instruction text
Dequeue ==
    /\ inflight = NoEntry
    /\ queue # <<>>
    /\ LET e == Head(queue)
       IN  /\ queue' = Tail(queue)
           /\ inflight' = e
           \* the pre-callback of the lift entry (line 68)
           /\ closures' = IF e.kind = "lift"
                          THEN [closures EXCEPT
                                  ![e.pid].pausedPosition = pausedPosition]
                          ELSE closures
           /\ phase' = IF e.code # "" THEN "sent" ELSE "satisfied"
           /\ log' = IF e.kind \in {"M400", "M114", "lift", "command"}
                     THEN Logged(log, e.pid, e.kind)
                     ELSE log
    /\ nInFlight' = nInFlight + 1
    /\ lastData' = NoLine
    /\ UNCHANGED <<botState, hasJob, job, pausedPosition, pauseableState,
                   settings, nPauses, nTransients, ret, nCommands, jobSide>>

\* a response line arrives for the entry in flight
Respond(ln) ==
    /\ phase = "sent"
    /\ IF HasProcessData(inflight)
       THEN LET r == processData(ln.text, settings)
            IN  IF r.threw
                THEN \* the entry is abandoned, the queue proceeds
                     /\ inflight' = NoEntry
                     /\ phase' = "idle"
                     /\ lastData' = ln
                     /\ nInFlight' = nInFlight - 1
                     /\ UNCHANGED <<pausedPosition, log>>
                ELSE /\ pausedPosition' = r.pos
                     /\ log' = Logged(log, inflight.pid, "pos")
                     \* true: keep waiting; false: the entry is satisfied
                     /\ phase' = IF r.ret THEN "sent" ELSE "satisfied"
                     /\ lastData' = ln
                     /\ UNCHANGED <<inflight, nInFlight>>
       ELSE /\ phase' = "satisfied"
            /\ UNCHANGED <<inflight, pausedPosition, log, lastData,
                           nInFlight>>
    /\ UNCHANGED <<botState, hasJob, job, queue, pauseableState, settings,
                   closures, nPauses, nTransients, ret, nCommands, jobSide>>

\* the connection reports a transport error: the entry in flight has
\* failed and the queue proceeds
TransportError ==
    /\ phase = "sent"
    /\ inflight' = NoEntry
    /\ phase' = "idle"
    /\ log' = Finished(inflight, log)
    /\ lastData' = NoLine
    /\ nInFlight' = nInFlight - 1
    /\ UNCHANGED <<botState, hasJob, job, queue, pausedPosition,
                   pauseableState, settings, closures, nPauses, nTransients,
                   ret, nCommands, jobSide>>

\* The post-callbacks; st is the state a callback runs in, the result is
\* the state it leaves.  A callback that throws stops where it throws.

\* the first stage enqueueing the two later stages together
stageAPost_allStages(e, st) ==
    LET r == JobPause(st.job)
    IN  IF r.threw THEN st
        ELSE [st EXCEPT
                !.job = r.job,
                !.log = Logged(st.log, e.pid, "jobPaused"),
                !.queue = prependCommands(st.queue,
                              st.closures[e.pid].movement
                                  \o <<pauseEndCommand(e.pid)>>)]

\* the pause movements put behind the entries that are queued
stageAPost_appends(e, st) ==
    LET r == JobPause(st.job)
    IN  IF r.threw THEN st
        ELSE [st EXCEPT
                !.job = r.job,
                !.log = Logged(st.log, e.pid, "jobPaused"),
                !.queue = queueCommands(st.queue,
                              st.closures[e.pid].movement)]

\* lines 81 to 87: pause the job, then prepend the pause movements
stageAPost(e, st) ==
    LET r == JobPause(st.job)
    IN  IF r.threw THEN st
        ELSE [st EXCEPT
                !.job = r.job,
                !.log = Logged(st.log, e.pid, "jobPaused"),
                !.queue = prependCommands(st.queue,
                              st.closures[e.pid].movement)]

\* lines 73 to 75
closingPost(e, st) ==
    [st EXCEPT !.queue = prependCommands(st.queue,
                             <<pauseEndCommand(e.pid)>>)]

\* lines 34 to 36
pauseEndPost(e, st) ==
    LET f == BotFire("pauseDone", st.botState)
    IN  [st EXCEPT
           !.botState = f.state,
           !.log = Logged(st.log, e.pid,
                       IF f.err THEN "pauseDoneError" ELSE "pauseDone")]

\* lines 92 to 96
markerPost(e, st) ==
    LET f == BotFire("pause", st.botState)
    IN  [st EXCEPT
           !.pauseableState = st.botState,
           !.botState = f.state,
           !.log = Logged(st.log, e.pid, "marker")]

\* the last entry of a transient operation ends the transient state
transientEndPost(e, st) ==
    [st EXCEPT !.botState = BotFire("transientDone", st.botState).state]

postCallback(e, st) ==
    CASE e.kind = "stageA" -> stageAPost(e, st)
      [] e.kind = "closing" -> closingPost(e, st)
      [] e.kind = "pauseEnd" -> pauseEndPost(e, st)
      [] e.kind = "marker" -> markerPost(e, st)
      [] e.kind = "transientEnd" -> transientEndPost(e, st)
      [] OTHER -> st

\* the entry in flight is satisfied: run its post-callback, go on draining
Complete ==
    /\ phase = "satisfied"
    /\ LET st == postCallback(inflight,
                     [job |-> job, queue |-> queue, botState |-> botState,
                      pauseableState |-> pauseableState,
                      closures |-> closures,
                      log |-> Finished(inflight, log)])
       IN  /\ job' = st.job
           /\ queue' = st.queue
           /\ botState' = st.botState
           /\ pauseableState' = st.pauseableState
           /\ log' = st.log
    /\ inflight' = NoEntry
    /\ phase' = "idle"
    /\ lastData' = NoLine
    /\ nInFlight' = nInFlight - 1
    /\ UNCHANGED <<hasJob, pausedPosition, settings, closures, nPauses,
                   nTransients, ret, nCommands, jobSide>>

\* ------------------------------------------------------------------------
\* The other operations on the bot
\* ------------------------------------------------------------------------
Connect ==
    /\ botState = "disconnected"
    /\ botState' = BotFire("connect", botState).state
    /\ UNCHANGED <<hasJob, job, queue, inflight, phase, pausedPosition,
                   pauseableState, settings, closures, nPauses, nTransients,
                   log, lastData, ret, nCommands, nInFlight, jobSide>>

ConnectDone ==
    /\ botState = "connecting"
    /\ botState' = BotFire("connectDone", botState).state
    /\ UNCHANGED <<hasJob, job, queue, inflight, phase, pausedPosition,
                   pauseableState, settings, closures, nPauses, nTransients,
                   log, lastData, ret, nCommands, nInFlight, jobSide>>

\* the bot takes the job as its current job
AssignJob ==
    /\ ~hasJob
    /\ botState = "idle"
    /\ hasJob' = TRUE
    /\ UNCHANGED <<botState, job, queue, inflight, phase, pausedPosition,
                   pauseableState, settings, closures, nPauses, nTransients,
                   log, lastData, ret, nCommands, nInFlight, jobSide>>

\* a non-interruptible operation starts: the bot enters a transient state
\* and the commands of the operation are queued, the last of which ends it
BeginTransient(event) ==
    /\ nTransients < MaxTransients
    /\ ~BotFire(event, botState).err
    /\ botState' = BotFire(event, botState).state
    /\ nTransients' = nTransients + 1
    /\ queue' = queueCommands(queue,
           << [kind |-> "command", pid |-> 0, code |-> "G4", arg |-> Undef],
              [kind |-> "transientEnd", pid |-> 0, code |-> "",
               arg |-> Undef] >>)
    /\ UNCHANGED <<hasJob, job, inflight, phase, pausedPosition,
                   pauseableState, settings, closures, nPauses, log, lastData,
                   ret, nCommands, nInFlight, jobSide>>

\* a caller other than pause appends an instruction to the queue; arg
\* keeps, as history, the number of pauses accepted by then
QueueCommand ==
    /\ nCommands < MaxCommands
    /\ botState \notin {"disconnected", "connecting"}
    /\ nCommands' = nCommands + 1
    /\ queue' = queueCommands(queue,
           << [kind |-> "command", pid |-> 0, code |-> "G1",
               arg |-> Num(nPauses)] >>)
    /\ UNCHANGED <<botState, hasJob, job, inflight, phase, pausedPosition,
                   pauseableState, settings, closures, nPauses, nTransients,
                   log, lastData, ret, nInFlight, jobSide>>

\* resume of a paused bot: the bot fires resume, the job resumes
BotResume ==
    /\ hasJob
    /\ botState = "paused"
    /\ job.state = "paused"
    /\ botState' = BotFire("resume", botState).state
    /\ job' = JobResume(job).job
    /\ UNCHANGED <<hasJob, queue, inflight, phase, pausedPosition,
                   pauseableState, settings, closures, nPauses, nTransients,
                   log, lastData, ret, nCommands, nInFlight, jobSide>>

\* ------------------------------------------------------------------------
\* Calls of the job operations that change the job
\* ------------------------------------------------------------------------
JobOp(r) ==
    /\ ~r.threw
    /\ r.job # job
    /\ job' = r.job
    /\ UNCHANGED <<botState, hasJob, queue, inflight, phase, pausedPosition,
                   pauseableState, settings, closures, nPauses, nTransients,
                   log, lastData, ret, nCommands, nInFlight, jobSide>>

JobStartCall == JobOp(JobStart(job))

JobPauseCall == JobOp(JobPause(job))

JobResumeCall == JobOp(JobResume(job))

\* a cancel that also empties the command queue
JobCancelCall_flushesQueue ==
    /\ ~JobCancel(job).threw
    /\ job' = JobCancel(job).job
    /\ queue' = <<>>
    /\ UNCHANGED <<botState, hasJob, inflight, phase, pausedPosition,
                   pauseableState, settings, closures, nPauses, nTransients,
                   log, lastData, ret, nCommands, nInFlight, jobSide>>

JobCancelCall == JobOp(JobCancel(job))

JobCompleteCall == JobOp(JobComplete(job))

Next ==
    \/ Pause
    \/ Dequeue
    \/ \E ln \in Lines : Respond(ln)
    \/ TransportError
    \/ Complete
    \/ Connect
    \/ ConnectDone
    \/ AssignJob
    \/ \E event \in {"block", "unblock"} : BeginTransient(event)
    \/ BotResume
    \/ JobStartCall
    \/ JobPauseCall
    \/ JobResumeCall
    \/ JobCancelCall
    \/ JobCompleteCall

Spec == Init /\ [][Next]_vars

\* ------------------------------------------------------------------------
\* The pause protocol with a caller other than pause that queues
\* instructions of its own, in place of the transient operations
\* ------------------------------------------------------------------------
InitQueue ==
    /\ InitBot
    /\ InitSide
    /\ settings = [x |-> 0, y |-> 0, z |-> 0]
    /\ initialState = "undefined"
    /\ job = [state |-> "ready", stopwatch |-> FALSE]

NextQueue ==
    \/ Pause
    \/ Dequeue
    \/ \E ln \in Lines : Respond(ln)
    \/ TransportError
    \/ Complete
    \/ Connect
    \/ ConnectDone
    \/ AssignJob
    \/ QueueCommand
    \/ BotResume
    \/ JobStartCall
    \/ JobPauseCall
    \/ JobResumeCall
    \/ JobCancelCall
    \/ JobCompleteCall

QueueSpec == InitQueue /\ [][NextQueue]_vars

\* ------------------------------------------------------------------------
\* The pause protocol with a device that answers every instruction it is
\* sent (no transport error) and a queue that goes on draining: the drain
\* loop pops the head entry whenever none is in flight and runs the
\* post-callback of an entry as soon as it is satisfied
\* ------------------------------------------------------------------------
NextLive ==
    \/ Pause
    \/ Dequeue
    \/ \E ln \in Lines : Respond(ln)
    \/ Complete
    \/ Connect
    \/ ConnectDone
    \/ AssignJob
    \/ \E event \in {"block", "unblock"} : BeginTransient(event)
    \/ BotResume
    \/ JobStartCall
    \/ JobPauseCall
    \/ JobResumeCall
    \/ JobCancelCall
    \/ JobCompleteCall

LiveSpec ==
    /\ Init
    /\ [][NextLive]_vars
    /\ WF_vars(Dequeue)
    /\ WF_vars(Complete)
    /\ WF_vars(\E ln \in Lines : Respond(ln))

\* ------------------------------------------------------------------------
\* The job on its own: initialize, the job operations with the calls that
\* are rejected, and the side channel of onenterstate.  Spec leaves the side
\* channel out: no action of the bot or of the job reads its variables.
\* ------------------------------------------------------------------------
botSide == <<botState, hasJob, queue, inflight, phase, pausedPosition,
             pauseableState, settings, closures, nPauses, nTransients, log,
             lastData, ret, nCommands, nInFlight>>

\* the values of this.initialState
RestoredStates ==
    {"undefined", "initializing", "ready", "running", "paused", "complete",
     "canceled"}

\* every restored state kept as it is
initialStateOf_keepsRestored(restored) ==
    IF restored = "undefined" THEN "initializing" ELSE restored

\* lines 51 to 60: the state the fsm is created in
initialStateOf(restored) ==
    IF restored \in {"complete", "canceled"} THEN restored
    ELSE IF restored = "undefined" THEN "initializing"
    ELSE "canceled"

\* an error of the side channel leaving onenterstate
onenterstateThrows_noCatch(failed) == failed

\* the try / catch of lines 74 and 91 inside an async function: whether an
\* error of the side channel leaves onenterstate
onenterstateThrows(failed) == FALSE

\* the snapshot showing the state the transition went to
snapshotState_ofTransition(j, task) == task.to

\* this.fsm.current at line 80 and this.getJob().state at line 88: the
\* state of the job when the line runs
snapshotState(j, task) == j.state

\* lines 71 to 76: onenterstate up to its first await; lookupThrows is
\* the call of findById throwing.  started is the run left waiting, failed
\* whether the error was caught and logged, threw whether it left the
\* callback
onenterstate(from, to, lookupThrows) ==
    [started |-> IF from = "none" \/ lookupThrows THEN <<>>
                 ELSE << [pc |-> "findById", to |-> to, state |-> "none"] >>,
     failed |-> from # "none" /\ lookupThrows,
     threw |-> from # "none" /\ lookupThrows
                  /\ onenterstateThrows(lookupThrows)]

\* lines 99 to 116: the fsm is created in its initial state, which enters
\* the state from "none", and initializationDone is fired from initializing
initialize(restored, lookupThrows) ==
    LET first == initialStateOf(restored)
        to == IF first = "initializing"
              THEN JobFire("initializationDone", first).state
              ELSE first
        entry == onenterstate("none", first, lookupThrows)
        done == IF to # first THEN onenterstate(first, to, lookupThrows)
                ELSE entry
    IN  [job |-> [state |-> to, stopwatch |-> FALSE],
         started |-> entry.started \o done.started,
         failed |-> entry.failed \/ done.failed]

InitJob ==
    /\ InitBot
    /\ InitSide
    /\ settings = [x |-> 0, y |-> 0, z |-> 0]
    /\ initialState \in RestoredStates
    /\ job = [state |-> "none", stopwatch |-> FALSE]

Initialize ==
    /\ job.state = "none"
    /\ \E lookupThrows \in BOOLEAN :
          LET r == initialize(initialState, lookupThrows)
          IN  /\ lookupThrows => r.failed
              /\ job' = r.job
              /\ pending' = pending \o r.started
              /\ failureLogged' = (failureLogged \/ r.failed)
    /\ UNCHANGED <<initialState, db, bcast, jobRet, botSide>>

\* a call of a job operation; r is what the operation does to the job
JobCall(op, r, lookupThrows) ==
    LET fired == r.job.state # job.state
        side == onenterstate(job.state, r.job.state, lookupThrows)
    IN  /\ job.state # "none"
        /\ fired => Len(pending) < MaxPending
        /\ lookupThrows => fired
        /\ job' = r.job
        /\ pending' = IF fired THEN pending \o side.started ELSE pending
        /\ failureLogged' = (failureLogged \/ (fired /\ side.failed))
        /\ jobRet' = [op |-> op, prev |-> jobRet.op,
                      threw |-> r.threw \/ (fired /\ side.threw),
                      fired |-> fired]
        /\ UNCHANGED <<initialState, db, bcast, botSide>>

CallStart == \E b \in BOOLEAN : JobCall("start", JobStart(job), b)

CallPause == \E b \in BOOLEAN : JobCall("pause", JobPause(job), b)

CallResume == \E b \in BOOLEAN : JobCall("resume", JobResume(job), b)

CallCancel == \E b \in BOOLEAN : JobCall("cancel", JobCancel(job), b)

CallComplete == \E b \in BOOLEAN : JobCall("complete", JobComplete(job), b)

\* no run of onenterstate
NoTask == [pc |-> "none", to |-> "none", state |-> "none"]

\* the sequence without its i-th element
Remove(seq, i) == SubSeq(seq, 1, i - 1) \o SubSeq(seq, i + 1, Len(seq))

\* lines 76 to 84: the record of the job is found and, after the delay,
\* the update is issued with the state the job has by then
LookupDone(i) ==
    /\ pending[i].pc = "findById"
    /\ pending' = [pending EXCEPT
                     ![i].pc = "updateAttributes",
                     ![i].state = snapshotState(job, pending[i])]
    /\ UNCHANGED <<job, initialState, db, bcast, failureLogged, jobRet,
                   botSide>>

\* lines 85 to 90: the update has ended, the snapshot is broadcast;
\* broadcastThrows is the broadcast failing
UpdateDone(i, broadcastThrows) ==
    /\ pending[i].pc = "updateAttributes"
    /\ db' = pending[i].state
    /\ IF broadcastThrows
       THEN /\ failureLogged' = TRUE
            /\ UNCHANGED bcast
       ELSE /\ bcast' = [kind |-> "transition",
                         state |-> snapshotState(job, pending[i]),
                         to |-> pending[i].to]
            /\ UNCHANGED failureLogged
    /\ pending' = Remove(pending, i)
    /\ UNCHANGED <<job, initialState, jobRet, botSide>>

\* lines 91 to 93: the lookup or the update fails, or no record was found;
\* the error is logged
SideFailure(i) ==
    /\ pending' = Remove(pending, i)
    /\ failureLogged' = TRUE
    /\ UNCHANGED <<job, initialState, db, bcast, jobRet, botSide>>

\* lines 106 to 113: the stopwatch reports the time while it runs
Tick ==
    /\ job.stopwatch
    /\ bcast' = [kind |-> "tick", state |-> snapshotState(job, NoTask),
                 to |-> "none"]
    /\ UNCHANGED <<job, initialState, pending, db, failureLogged, jobRet,
                   botSide>>

NextJob ==
    \/ Initialize
    \/ CallStart
    \/ CallPause
    \/ CallResume
    \/ CallCancel
    \/ CallComplete
    \/ \E i \in 1..Len(pending) : LookupDone(i)
    \/ \E i \in 1..Len(pending), b \in BOOLEAN : UpdateDone(i, b)
    \/ \E i \in 1..Len(pending) : SideFailure(i)
    \/ Tick

JobSpec == InitJob /\ [][NextJob]_vars

\* ------------------------------------------------------------------------
\* Properties
\* ------------------------------------------------------------------------
\* the events of the pause p, in the order they happened
Events(p) ==
    LET mine == SelectSeq(log, LAMBDA r : r.pid = p)
    IN  [i \in 1..Len(mine) |-> mine[i].ev]

Rank(ev) ==
    CASE ev = "accepted" -> 0
      [] ev = "jobPaused" -> 1
      [] ev = "M400" -> 2
      [] ev = "M114" -> 3
      [] ev = "pos" -> 4
      [] ev = "lift" -> 5
      [] ev = "liftDone" -> 6
      [] OTHER -> 7

Happened(p, ev) == \E i \in 1..Len(Events(p)) : Events(p)[i] = ev

\* this step is a call of pause
PauseCalled == ret'.tick # ret.tick

\* the events of every pause are in the order of the protocol, each after
\* the one it depends on
EventsInOrder ==
    \A p \in Pids :
        LET ev == Events(p)
        IN  /\ \A i \in 1..Len(ev) : \A j \in 1..Len(ev) :
                   i < j => /\ Rank(ev[i]) <= Rank(ev[j])
                            /\ ev[i] = ev[j] => ev[i] = "pos"
            /\ Happened(p, "M400") => Happened(p, "jobPaused")
            /\ Happened(p, "M114") => Happened(p, "M400")
            /\ Happened(p, "pos") => Happened(p, "M114")
            /\ Happened(p, "lift") => Happened(p, "M114")
            /\ Happened(p, "liftDone") => Happened(p, "lift")
            /\ Happened(p, "pauseDone") => Happened(p, "liftDone")

\* the step in which the first stage has paused the job leaves the job
\* paused with its stopwatch stopped
JobPausedStep ==
    (/\ log' # log
     /\ log'[Len(log')].ev = "jobPaused")
        => (job'.state = "paused" /\ ~job'.stopwatch)

C2_LiftEncodesCapturedZ ==
    (inflight.kind = "lift" /\ Happened(inflight.pid, "pos"))
        => inflight.arg = JSAdd(pausedPosition.z, Num(100 * Clearance))

\* the marker entry of the pause p waits in the queue
MarkerQueued(p) ==
    \E i \in 1..Len(queue) : queue[i] = markerCommand(p)

\* C3: after a pause requested in a transient state (job running) the
\* marker entry of the request is in the queue until it reaches the head,
\* and as long as it waits there nothing of the pause has happened and the
\* bot is still in the transient state.
C3_DeferredBehindMarker ==
    (ret.at \in TransientStates /\ ret.hadJob /\ ret.jobAt = "running")
        => /\ ret.pid \in Pids
           /\ MarkerQueued(ret.pid)
                  \/ inflight = markerCommand(ret.pid)
                  \/ Happened(ret.pid, "marker")
           /\ MarkerQueued(ret.pid)
                  => /\ ~Happened(ret.pid, "jobPaused")
                     /\ ~Happened(ret.pid, "M400")
                     /\ ~Happened(ret.pid, "M114")
                     /\ ~Happened(ret.pid, "lift")
                     /\ botState = ret.at

Markers(q) == {i \in 1..Len(q) : q[i].kind = "marker"}

\* C4: a pause requested in a transient state (job running) is accepted,
\* does not fire the pause transition inside the call and appends exactly
\* one marker entry to the tail of the queue.
C4_TransientPauseAccepted ==
    [][(PauseCalled /\ botState \in TransientStates /\ hasJob
            /\ job.state = "running")
          => /\ ret'.exc = "none"
             /\ botState' = botState
             /\ queue' # <<>>
             /\ queue'[Len(queue')].kind = "marker"
             /\ Cardinality(Markers(queue'))
                    = Cardinality(Markers(queue)) + 1]_vars

\* C5: pause without a current job raises the "no job" error and leaves
\* the queue, the bot state, pausedPosition and pauseableState as they were.
C5_NoJobNoChange ==
    [][(PauseCalled /\ ~hasJob)
          => /\ ret'.exc = "noJob"
             /\ UNCHANGED <<queue, inflight, phase, botState,
                            pausedPosition, pauseableState, job>>]_vars

C5_Witness ==
    /\ ret.exc = "noJob"
    /\ queue # <<>>

\* C6: pause with a current job that is not running is a precondition
\* error: nothing is prepended or appended and no transition is fired on
\* the bot or on the job.
C6_JobNotRunningRejected ==
    [][(PauseCalled /\ hasJob /\ job.state # "running")
          => /\ ret'.exc \in {"botState", "jobState"}
             /\ UNCHANGED <<queue, botState, job>>]_vars

C6_Witness ==
    /\ ret.exc = "jobState"
    /\ ret.jobAt \in {"ready", "paused", "canceled", "complete"}
    /\ ret.at \in pauseable

\* C7: pause never throws to its caller: a failure inside it is caught and
\* the call returns the snapshot of the bot as it is then.
C7_PauseNeverThrows ==
    [][PauseCalled => (~ret'.thrown /\ ret'.snapshot = botState')]_vars

C7_Witness ==
    /\ ret.exc # "none"
    /\ ~ret.thrown

Stage(kind) ==
    CASE kind = "stageA" -> "A"
      [] kind \in {"M400", "M114", "lift", "closing"} -> "B"
      [] kind = "pauseEnd" -> "C"
      [] OTHER -> "-"

\* the stages of the pause p that have entries in the queue q
StagesQueued(q, p) ==
    {Stage(q[i].kind) : i \in {k \in 1..Len(q) : q[k].pid = p}} \ {"-"}

\* a stage is enqueued only by the post-callback that ends the stage
\* before it
EnqueuedByPredecessor ==
    \A p \in Pids :
        /\ ("B" \in StagesQueued(queue', p) /\ "B" \notin StagesQueued(queue, p))
               => (inflight = stageACommand(p) /\ phase = "satisfied")
        /\ ("C" \in StagesQueued(queue', p) /\ "C" \notin StagesQueued(queue, p))
               => (inflight.kind = "closing" /\ inflight.pid = p
                   /\ phase = "satisfied")

\* C8: the queue never holds entries of two stages of one pause; the
\* entries of stage B are enqueued only by the post-callback of stage A
\* and the entry of stage C only by that of the closing entry of stage B.
C8_StagesNeverTogether ==
    /\ [](\A p \in Pids : Cardinality(StagesQueued(queue, p)) <= 1)
    /\ [][EnqueuedByPredecessor]_vars

C8_Witness ==
    \E p \in Pids : StagesQueued(queue, p) = {"C"}

\* what processData is to store for the line ln
ExpectedPosition(ln, offsets) ==
    [x |-> Num(ln.X - offsets.x), y |-> Num(ln.Y - offsets.y),
     z |-> Num(ln.Z - offsets.z), e |-> Num(ln.E)]

\* C9: for a well-formed line reporting X, Y, Z, E the position stored is
\* x = X - offsetX, y = Y - offsetY, z = Z - offsetZ, e = E.
C9_OffsetAdjusted ==
    lastData.wf => pausedPosition = ExpectedPosition(lastData, settings)

C9_Witness ==
    /\ lastData.wf
    /\ settings.z # 0
    /\ inflight.kind = "M114"

\* C10: once processData has parsed a well-formed line the telemetry entry
\* is satisfied: it does not go on waiting for response lines.
C10_SatisfiedByWellFormedLine ==
    ~(inflight.kind = "M114" /\ phase = "sent" /\ lastData.wf)

\* this step is processData called with a line that has not the four
\* fields
MalformedResponse ==
    /\ lastData' # lastData
    /\ lastData' # NoLine
    /\ ~lastData'.wf

\* the position is the one of construction or has four numbers
PositionOfNumbers ==
    \/ pausedPosition = UndefPosition
    \/ \A f \in {"x", "y", "z", "e"} : pausedPosition[f].t = "num"

JobCalled(op) == jobRet' # jobRet /\ jobRet'.op = op

Running == [state |-> "running", stopwatch |-> TRUE]

\* C12: resume of a paused job fires the transition and leaves the job
\* running with its stopwatch running; resume of a running job, the second
\* of two resumes in a row among them, changes nothing, fires nothing and
\* raises no error.
C12_ResumeIdempotent ==
    [][JobCalled("resume") =>
         /\ job.state = "paused" =>
               job' = Running /\ jobRet'.fired /\ ~jobRet'.threw
         /\ job.state = "running" =>
               job' = job /\ ~jobRet'.fired /\ ~jobRet'.threw
         /\ jobRet.op = "resume" /\ ~jobRet.threw =>
               job = Running /\ job' = job /\ ~jobRet'.fired
                   /\ ~jobRet'.threw]_vars

\* resume was called twice in a row and the second call did nothing
C12_Witness ==
    /\ jobRet.op = "resume"
    /\ jobRet.prev = "resume"
    /\ ~jobRet.threw
    /\ ~jobRet.fired
    /\ job = Running

\* C13: cancel of a running or paused job moves it to canceled and stops
\* the stopwatch; cancel of a complete job raises an error and leaves the
\* state and the stopwatch as they were.
C13_CancelOutcome ==
    [][JobCalled("cancel") =>
         /\ job.state \in {"running", "paused"} =>
               /\ job' = [state |-> "canceled", stopwatch |-> FALSE]
               /\ ~jobRet'.threw
         /\ job.state = "complete" =>
               jobRet'.threw /\ job' = job]_vars

\* cancel was called on a complete job
C13_Witness ==
    /\ jobRet.op = "cancel"
    /\ jobRet.threw
    /\ job.state = "complete"
    /\ ~job.stopwatch

\* this step is a call of cancel that moved the job to canceled
Canceled == job.state # "canceled" /\ job'.state = "canceled"

\* C14: a cancel changes the job and nothing of the bot: the queue, the
\* entry in flight, the state of the bot and pausedPosition stay as they
\* are, and the queued entries go on draining under a canceled job.
C14_CancelLeavesBotAlone ==
    /\ [][Canceled => UNCHANGED <<queue, inflight, phase, botState,
                                  pausedPosition>>]_vars
    /\ [](job.state = "canceled" /\ queue # <<>> /\ inflight = NoEntry
             => ENABLED Dequeue)
    /\ [](job.state = "canceled" /\ phase = "satisfied" => ENABLED Complete)

\* the entry a pause queued while the job was running is drained after
\* the cancel, with entries behind it
C14_Witness ==
    /\ job.state = "canceled"
    /\ inflight.kind = "stageA"
    /\ phase = "satisfied"
    /\ queue # <<>>

\* what initialize makes of a restored state
ExpectedAfterInitialize(restored) ==
    CASE restored = "undefined" -> "ready"
      [] restored \in {"complete", "canceled"} -> restored
      [] OTHER -> "canceled"

\* this step is initialize
Initialized == job.state = "none" /\ job'.state # "none"

\* C15: initialize of a job with no restored state goes through
\* initializing to ready (one transition); a restored complete or canceled
\* is kept (no transition); any other restored state gives canceled.  A
\* restored job is never initializing, ready, running or paused.
C15_InitializeByRestoredState ==
    /\ [][Initialized =>
            /\ job'.state = ExpectedAfterInitialize(initialState)
            /\ ~job'.stopwatch
            /\ IF initialState = "undefined"
               THEN \/ pending' = << [pc |-> "findById", to |-> "ready",
                                      state |-> "none"] >>
                    \/ pending' = <<>> /\ failureLogged'
               ELSE pending' = <<>> /\ ~failureLogged']_vars
    /\ [](initialState # "undefined" =>
             job.state \in {"none", "complete", "canceled"})

\* a job restored as running has been initialized
C15_Witness ==
    /\ initialState = "running"
    /\ job.state = "canceled"

\* a transition of the job, not the entry into its first state
Transition == job.state # "none" /\ job'.state # job.state

\* the run of onenterstate that this step starts
StartedRun(to) ==
    \/ pending' = Append(pending,
                         [pc |-> "findById", to |-> to, state |-> "none"])
    \/ pending' = pending /\ failureLogged'

\* this step is the broadcast of the run i
BroadcastOf(i) ==
    /\ pending[i].pc = "updateAttributes"
    /\ pending' = Remove(pending, i)
    /\ bcast'.kind = "transition"

\* C16 as stated: the snapshot broadcast for a transition shows the new
\* state of that transition.
C16_SnapshotShowsNewState ==
    bcast.kind = "transition" => bcast.state = bcast.to

\* C16: every transition of the job other than the entry into its first
\* state starts a run of the side channel; the snapshot it persists shows
\* the state the job has when the update is issued, the one it broadcasts
\* the state the job has when the update has ended, and a run that fails
\* broadcasts nothing.
C16_TransitionStartsSnapshot ==
    [][/\ Transition => StartedRun(job'.state)
       /\ Initialized =>
             IF job'.state = "ready" THEN StartedRun("ready")
             ELSE UNCHANGED <<pending, failureLogged>>
       /\ \A i \in 1..Len(pending) :
             /\ (pending[i].pc = "findById" /\ Len(pending') = Len(pending)
                   /\ pending'[i].pc = "updateAttributes")
                  => pending'[i].state = job.state
             /\ BroadcastOf(i) /\ bcast' # bcast
                  => /\ bcast'.state = job.state
                     /\ bcast'.to = pending[i].to
                     /\ db' = pending[i].state
       /\ (bcast' # bcast /\ bcast'.kind = "transition")
             => \E i \in 1..Len(pending) : BroadcastOf(i)
       /\ (db' # db) => \E i \in 1..Len(pending) :
                            /\ pending[i].pc = "updateAttributes"
                            /\ db' = pending[i].state]_vars

\* the broadcast of a transition shows a later state than its own
C16_Witness ==
    /\ bcast.kind = "transition"
    /\ bcast.state # bcast.to
    /\ db # bcast.to

\* what the operation op does to the job j
OpResult(op, j) ==
    CASE op = "start" -> JobStart(j)
      [] op = "pause" -> JobPause(j)
      [] op = "resume" -> JobResume(j)
      [] op = "cancel" -> JobCancel(j)
      [] OTHER -> JobComplete(j)

\* C17: a failure of the lookup, of the update or of the broadcast leaves
\* the job as it is, and a call of a job operation ends as the operation
\* alone decides: in the target state, raising only its own errors.
C17_SideChannelNeverFatal ==
    [][/\ Len(pending') < Len(pending) => UNCHANGED <<job, jobRet>>
       /\ jobRet' # jobRet =>
             /\ job' = OpResult(jobRet'.op, job).job
             /\ jobRet'.threw = OpResult(jobRet'.op, job).threw
       /\ (failureLogged' /\ ~failureLogged /\ jobRet' # jobRet) =>
             jobRet'.fired /\ ~jobRet'.threw]_vars

\* the job has completed though nothing was ever persisted or broadcast
C17_Witness ==
    /\ failureLogged
    /\ job.state = "complete"
    /\ jobRet.op = "complete"
    /\ jobRet.fired
    /\ ~jobRet.threw
    /\ pending = <<>>
    /\ db = NoRecord
    /\ bcast = NoBroadcast

\* C18: the stopwatch runs exactly when the job is running, whatever
\* operations were called, and a tick broadcasts a running job.
C18_TimerRunsWhileRunning ==
    /\ job.stopwatch <=> job.state = "running"
    /\ bcast.kind = "tick" => bcast.state = "running"

\* a tick was broadcast and a call was rejected, the job is running
C18_Witness ==
    /\ bcast.kind = "tick"
    /\ jobRet.threw
    /\ job = Running

\* C19: at most one entry is in flight, in every state, whatever the
\* callbacks of the entry being drained and other callers put in the queue.
C19_OneEntryInFlight ==
    /\ nInFlight <= 1
    /\ nInFlight = IF inflight = NoEntry THEN 0 ELSE 1

\* an entry that a post-callback prepended is in flight, the rest of its
\* batch waits
C19_Witness ==
    /\ nInFlight = 1
    /\ inflight.kind = "M400"
    /\ Len(queue) >= 3

\* the entries of the pause p that post-callbacks prepend
Prepended == {"M400", "M114", "lift", "pauseDone", "pauseDoneError"}

\* in the order of running, nothing but entries of the pause p comes
\* between the post-callback of its first entry and the entries that were
\* prepended for it, and these run in the order of their batch
RunOrder ==
    \A i, k \in 1..Len(log) :
        (i < k /\ log[k].pid = log[i].pid /\ log[k].ev \in Prepended) =>
            /\ (log[i].ev = "jobPaused" =>
                  \A j \in i..k : log[j].ev # "command")
            /\ (log[i].ev \in Prepended =>
                  Rank(log[i].ev) <= Rank(log[k].ev))

\* q is the queue old with the entries of batch put ahead of it
PrependedTo(q, batch, old) == q = batch \o old

\* this step is the post-callback of an entry of kind kind
PostCallbackOf(kind) ==
    /\ inflight.kind = kind
    /\ phase = "satisfied"
    /\ inflight' = NoEntry

PauseDoneCount(p) ==
    Cardinality({i \in 1..Len(Events(p)) : Events(p)[i] = "pauseDone"})

\* C21: once a pause has been accepted and the device answers every
\* instruction it is sent, pauseDone eventually fires for that pause, and
\* it fires once, whatever job operations are called in between: the bot
\* does not stay between the pause transition and pauseDone.
C21_PauseDoneEventually ==
    /\ \A p \in Pids : Happened(p, "accepted") ~> Happened(p, "pauseDone")
    /\ [](\A p \in Pids : PauseDoneCount(p) <= 1)

\* the entries of kind kind that wait in the queue q
Queued(q, kind) == {i \in 1..Len(q) : q[i].kind = kind}

\* this step is a call of pause made while the first entry of an earlier
\* request waits in the queue: nothing of that request has been drained
PauseCalledAgain == PauseCalled /\ Queued(queue, "stageA") # {}

\* C22: a pause called while the first entry of an earlier request still
\* waits is rejected: it enqueues nothing, fires no transition of the bot
\* and starts no cascade; the queue never holds two first-stage entries or
\* two markers, and pauseDone fires at most once for a request.
C22_SecondPauseBuildsNothing ==
    /\ [][PauseCalledAgain =>
            /\ ret'.exc = "botState"
            /\ ~ret'.thrown
            /\ UNCHANGED <<queue, inflight, botState, pauseableState,
                           nPauses, closures, log, job>>]_vars
    /\ [](/\ Cardinality(Queued(queue, "stageA")) <= 1
          /\ Cardinality(Queued(queue, "marker")) <= 1
          /\ \A p \in Pids : PauseDoneCount(p) <= 1)

\* pause was called a second time with the job still running and the
\* first entry of the first request at the head of the queue
C22_Witness ==
    /\ ret.exc = "botState"
    /\ ret.at = "pausing"
    /\ ret.jobAt = "running"
    /\ nPauses = 1
    /\ queue # <<>>
    /\ Head(queue) = stageACommand(1)
    /\ inflight = NoEntry

\* the states a job ends in
Ended == {"complete", "canceled"}

JobOperations == {"start", "pause", "resume", "cancel", "complete"}

\* C23: complete and canceled are absorbing: on a job in either of them
\* each of start, pause, resume, cancel and complete raises an error and
\* leaves the job as it is, and no step moves the job out of the state.
C23_EndedAbsorbing ==
    /\ [](job.state \in Ended =>
             \A op \in JobOperations :
                 /\ OpResult(op, job).threw
                 /\ OpResult(op, job).job = job)
    /\ [][job.state \in Ended =>
            /\ job' = job
            /\ \A op \in JobOperations :
                  JobCalled(op) => jobRet'.threw /\ ~jobRet'.fired]_vars

\* start and then pause were called on a job that had been canceled
C23_Witness ==
    /\ job.state = "canceled"
    /\ jobRet.op = "pause"
    /\ jobRet.prev = "start"
    /\ jobRet.threw
    /\ ~jobRet.fired

====
